---------------------------- MODULE Spec2Model ----------------------------
(***************************************************************************)
(* A model of src/multipart.js: the multipart/form-data middleware         *)
(* (multipart), the decoder (processBody, splitContentParts, parseContent) *)
(* and the Buffer / String / RegExp primitives they are written with; and  *)
(* of the index page of src/static.js (serveIndex, getPioneerTags,         *)
(* getPioneerFilenames, parseFiles).                                       *)
(*                                                                         *)
(* A byte (and a character) is a one-element string; a Buffer and a       *)
(* JavaScript string are sequences of them.  "xFF" stands for a byte that  *)
(* is not valid UTF-8 and "uFFFD" for the replacement character that       *)
(* Buffer.toString() decodes it to.  Indexes handed to the Buffer and      *)
(* String primitives are 0-based, as in the source.                        *)
(***************************************************************************)
EXTENDS Integers, Sequences, FiniteSets, TLC

VARIABLES
    wire,        \* bytes of the request body not yet delivered by the socket
    sent,        \* the form the client encoded into the body (ghost: the input)
    framing,     \* how the client framed it (ghost: the input)
    headers,     \* req.headers['content-type']: [def, s]
    chunks,      \* multipart's local array chunks
    pc,          \* "receiving", "ended" (end handler ran), "errored"
    res,         \* the response: statusCode, statusMessage, number of end() calls
    reqStatus,   \* req.statusCode, req.statusMessage as set by the end handler
    bodySets,    \* every value assigned to req.body, in order
    nextLog,     \* req.body as seen by each invocation of next, in order
    decodes,     \* number of processBody calls made
    outcomes,    \* every invocation of processBody's callback, in order
    parsed,      \* every buffer handed to parseContent, in order
    \* two requests handled by one server process (ConcSpec); each variable
    \* is a function of the request
    rqSent,      \* the form each client encoded (ghost: the input)
    rqHeaders,   \* each req.headers['content-type']
    rqWire,      \* bytes of each body not yet delivered
    rqChunks,    \* the array chunks of each call of multipart
    rqPc,        \* "receiving", "ended", "errored"
    rqStatus,    \* each req.statusCode, req.statusMessage
    rqState,     \* each response, the values req.body took, what next saw
    rqOutcomes,  \* every invocation of each processBody callback, in order
    rqOrder,     \* the request of each data event, in arrival order (ghost)
    \* one request for the index page (FilesSpec, src/static.js)
    listing,        \* what fs.readdir('pioneers/') gives: [err, files], files
                    \* being what reading each file will give (the input)
    filePc,         \* "listing", "reading", "failed", "crashed"
    reads,          \* the files whose fs.readFile has not called back yet
    objectsToParse, \* parseFiles' counter
    objects,        \* parseFiles' array
    parseCalls,     \* every invocation of parseFiles' callback, in order
    indexRes        \* the response of serveIndex

reqVars == <<wire, sent, framing, headers, chunks, pc, res, reqStatus, bodySets,
             nextLog, decodes, outcomes, parsed>>
rqVars == <<rqSent, rqHeaders, rqWire, rqChunks, rqPc, rqStatus, rqState,
           rqOutcomes, rqOrder>>
fileVars == <<listing, filePc, reads, objectsToParse, objects, parseCalls,
             indexRes>>
vars == <<reqVars, rqVars, fileVars>>

(***************************************************************************)
(* Bounds of the model.                                                    *)
(***************************************************************************)
MaxParts == 2      \* parts the client puts into one body
MaxChunks == 2     \* data events per request
MaxFiles == 3      \* files in the directory pioneers/

(***************************************************************************)
(* Byte strings.                                                           *)
(***************************************************************************)
CRLF == <<"\r", "\n">>
DOUBLE_CRLF == <<"\r", "\n", "\r", "\n">>
DASHES == <<"-", "-">>
COLON_SPACE == <<":", " ">>
DQUOTE == "\""
ContentDispositionName ==
    <<"C","o","n","t","e","n","t","-","D","i","s","p","o","s","i","t","i","o","n">>
ContentTypeName == <<"C","o","n","t","e","n","t","-","T","y","p","e">>
content_disposition ==
    <<"c","o","n","t","e","n","t","-","d","i","s","p","o","s","i","t","i","o","n">>
content_type == <<"c","o","n","t","e","n","t","-","t","y","p","e">>
FormData == <<"f","o","r","m","-","d","a","t","a">>
NAME == <<"n","a","m","e">>
FILENAME == <<"f","i","l","e","n","a","m","e">>
BOUNDARY_EQ == <<"b","o","u","n","d","a","r","y","=">>
OctetStream ==
    <<"a","p","p","l","i","c","a","t","i","o","n","/","o","c","t","e","t","-",
      "s","t","r","e","a","m">>
MultipartFormData ==
    <<"m","u","l","t","i","p","a","r","t","/","f","o","r","m","-","d","a","t","a">>
NoNameError == "No name in multipart content header"

Undefined == [def |-> FALSE, s |-> <<>>]
Str(s) == [def |-> TRUE, s |-> s]

Min(S) == CHOOSE m \in S : \A n \in S : m <= n

(***************************************************************************)
(* Buffer and String primitives.  An operator receives the value of each   *)
(* local variable of the source as an argument, so that it is computed     *)
(* once, as in the source.                                                 *)
(***************************************************************************)
\* whether pat occurs in buf at 0-based offset i
OccursAt(buf, pat, i) ==
    /\ i >= 0
    /\ i + Len(pat) <= Len(buf)
    /\ \A k \in 1..Len(pat) : buf[i + k] = pat[k]

\* an index relative to the end when negative, clamped to [0, length]
ClampIndex(buf, i) ==
    IF i < 0 THEN (IF Len(buf) + i < 0 THEN 0 ELSE Len(buf) + i)
    ELSE IF i > Len(buf) THEN Len(buf) ELSE i

FirstOf(hits) == IF hits = {} THEN -1 ELSE Min(hits)

\* Buffer.prototype.indexOf(value, byteOffset) and String.prototype.indexOf
IndexOf(buf, pat, byteOffset) ==
    FirstOf({i \in ClampIndex(buf, byteOffset)..(Len(buf) - Len(pat)) :
                OccursAt(buf, pat, i)})

\* Buffer.prototype.slice(start, end): negative indexes count from the end,
\* both are clamped to [0, length], and end <= start gives the empty buffer
Between(buf, s, e) == IF e <= s THEN <<>> ELSE SubSeq(buf, s + 1, e)
BufSlice(buf, start, end) ==
    Between(buf, ClampIndex(buf, start), ClampIndex(buf, end))

\* Buffer.prototype.toString(): UTF-8 decoding, an invalid byte becomes U+FFFD
DecodeByte(b) == IF b = "xFF" THEN "uFFFD" ELSE b
BufToString(buf) == [i \in 1..Len(buf) |-> DecodeByte(buf[i])]

\* Buffer.concat(list)
RECURSIVE BufConcat(_)
BufConcat(list) ==
    IF list = <<>> THEN <<>> ELSE Head(list) \o BufConcat(Tail(list))

\* String.prototype.split(separator) for a non-empty separator; i is the
\* index of the first separator
RECURSIVE StrSplitAt(_, _, _)
StrSplitAt(s, sep, i) ==
    IF i = -1 THEN <<s>>
    ELSE <<SubSeq(s, 1, i)>>
         \o StrSplitAt(SubSeq(s, i + Len(sep) + 1, Len(s)), sep,
                       IndexOf(SubSeq(s, i + Len(sep) + 1, Len(s)), sep, 0))
StrSplit(s, sep) == StrSplitAt(s, sep, IndexOf(s, sep, 0))

\* String.prototype.toLowerCase()
UpperCase == <<"A","B","C","D","E","F","G","H","I","J","K","L","M",
               "N","O","P","Q","R","S","T","U","V","W","X","Y","Z">>
LowerCase == <<"a","b","c","d","e","f","g","h","i","j","k","l","m",
               "n","o","p","q","r","s","t","u","v","w","x","y","z">>
LowerChar(c) ==
    IF \E i \in 1..26 : UpperCase[i] = c
    THEN LowerCase[CHOOSE i \in 1..26 : UpperCase[i] = c]
    ELSE c
ToLowerCase(s) == [i \in 1..Len(s) |-> LowerChar(s[i])]

(***************************************************************************)
(* Regular expressions of the source.                                      *)
(***************************************************************************)
\* String(v): what RegExp.prototype.exec makes of its argument
UNDEFINED_TEXT == <<"u","n","d","e","f","i","n","e","d">>
StringOf(v) == IF v.def THEN v.s ELSE UNDEFINED_TEXT

NoMatch == [matched |-> FALSE, group |-> <<>>]
Matched(group) == [matched |-> TRUE, group |-> group]

\* 0-based index of the first character at or after j that is in stops,
\* Len(str) when there is none
RunEnd(str, j, stops) ==
    Min({e \in j..Len(str) : e = Len(str) \/ str[e + 1] \in stops})

AttrStops == {";", DQUOTE}
\* a run of one or more characters from j to e, closed by a double quote
ClosedRun(str, j, e) == e > j /\ e < Len(str) /\ str[e + 1] = DQUOTE

\* whether /attr="([^;"]+)"/ matches str at offset i: attr=" , then one or
\* more characters other than ; and " , then "
AttrMatchAt(str, attr, i) ==
    /\ OccursAt(str, attr \o <<"=", DQUOTE>>, i)
    /\ ClosedRun(str, i + Len(attr) + 2,
                 RunEnd(str, i + Len(attr) + 2, AttrStops))

\* the match found at the leftmost of the offsets hits
AttrGroup(str, attr, hits) ==
    IF hits = {} THEN NoMatch
    ELSE Matched(SubSeq(str, Min(hits) + Len(attr) + 3,
                        RunEnd(str, Min(hits) + Len(attr) + 2, AttrStops)))

AttrExecStr(attr, str) ==
    AttrGroup(str, attr, {i \in 0..Len(str) : AttrMatchAt(str, attr, i)})

\* /attr="([^;"]+)"/.exec(v)
AttrExec(attr, v) == AttrExecStr(attr, StringOf(v))

\* /boundary=(.+);?/.exec(v): the greedy .+ takes the rest of the line, a
\* trailing ; and further parameters included
LineTerminators == {"\r", "\n"}
BoundaryGroup(str, hits) ==
    IF hits = {} THEN NoMatch
    ELSE Matched(SubSeq(str, Min(hits) + Len(BOUNDARY_EQ) + 1,
                        RunEnd(str, Min(hits) + Len(BOUNDARY_EQ),
                               LineTerminators)))
BoundaryExecStr(str) ==
    BoundaryGroup(str,
        {i \in 0..Len(str) :
            /\ OccursAt(str, BOUNDARY_EQ, i)
            /\ RunEnd(str, i + Len(BOUNDARY_EQ), LineTerminators)
                  > i + Len(BOUNDARY_EQ)})
BoundaryExec(v) == BoundaryExecStr(StringOf(v))

(***************************************************************************)
(* The decoder.                                                            *)
(***************************************************************************)
Field(text) == [kind |-> "Field", text |-> text]
File(filename, contentType, data) ==
    [kind |-> "File", filename |-> filename, contentType |-> contentType,
     data |-> data]

EmptyObject == [k \in {} |-> Undefined]
ObjGet(obj, key) == IF key \in DOMAIN obj THEN obj[key] ELSE Undefined
ObjSet(obj, key, value) ==
    [k \in DOMAIN obj \cup {key} |-> IF k = key THEN value ELSE obj[k]]

\* the loop of splitContentParts
RECURSIVE SplitLoop(_, _, _, _, _)
SplitLoop(buffer, boundary, start, end, parts) ==
    IF end > start
    THEN SplitLoop(buffer, boundary, end + Len(boundary),
                   IndexOf(buffer, boundary, end + Len(boundary)),
                   Append(parts, BufSlice(buffer, start, end)))
    ELSE parts

SplitFrom(buffer, boundary, start) ==
    SplitLoop(buffer, boundary, start, IndexOf(buffer, boundary, start), <<>>)

splitContentParts(buffer, boundary) ==
    SplitFrom(buffer, boundary,
              IndexOf(buffer, DASHES \o boundary, 0) + Len(boundary) + 2)

\* one header line, split on ': ' into parts: headers[key] = value
SetHeader(hdrs, parts) ==
    ObjSet(hdrs, ToLowerCase(parts[1]),
           IF Len(parts) >= 2 THEN Str(parts[2]) ELSE Undefined)
HeaderLine(hdrs, line) == SetHeader(hdrs, StrSplit(line, COLON_SPACE))

RECURSIVE HeaderLines(_, _)
HeaderLines(hdrs, lines) ==
    IF lines = <<>> THEN hdrs
    ELSE HeaderLines(HeaderLine(hdrs, Head(lines)), Tail(lines))

\* the head and body sections parseContent cuts out of a content buffer,
\* index being where it found CRLF CRLF
HeadAt(buffer, index) == BufToString(BufSlice(buffer, 0, index))
BodyAt(buffer, index) == BufSlice(buffer, index + 4, Len(buffer) - 4)
HeadOf(buffer) == HeadAt(buffer, IndexOf(buffer, DOUBLE_CRLF, 0))
BodyOf(buffer) == BodyAt(buffer, IndexOf(buffer, DOUBLE_CRLF, 0))
parseHeaders(buffer) == HeaderLines(EmptyObject, StrSplit(HeadOf(buffer), CRLF))

DefaultType(ct) == IF ~ct.def \/ ct.s = <<>> THEN OctetStream ELSE ct.s

\* the end of parseContent: the one invocation of callback it makes
Classify(name, filename, ct, body) ==
    IF ~name.matched THEN [isErr |-> TRUE, err |-> NoNameError]
    ELSE IF filename.matched
    THEN [isErr |-> FALSE, name |-> name.group,
          value |-> File(filename.group, DefaultType(ct), body)]
    ELSE [isErr |-> FALSE, name |-> name.group,
          value |-> Field(BufToString(body))]

parseParts(hdrs, body) ==
    Classify(AttrExec(NAME, ObjGet(hdrs, content_disposition)),
             AttrExec(FILENAME, ObjGet(hdrs, content_disposition)),
             ObjGet(hdrs, content_type), body)

\* parseContent(buffer, callback)
parseContent(buffer) == parseParts(parseHeaders(buffer), BodyOf(buffer))

\* the callback processBody hands to parseContent, r being what parseContent
\* reports: an error is passed on to processBody's callback (and the forEach
\* goes on), a key/value pair is stored in formData
OnContent(st, r) ==
    IF r.isErr
    THEN [st EXCEPT !.calls = Append(@, [isErr |-> TRUE, err |-> r.err])]
    ELSE [st EXCEPT !.formData = ObjSet(@, r.name, r.value)]

RECURSIVE ForEachContent(_, _)
ForEachContent(parts, st) ==
    IF parts = <<>> THEN st
    ELSE ForEachContent(Tail(parts), OnContent(st, parseContent(Head(parts))))

FinalCall(st) == Append(st.calls, [isErr |-> FALSE, contents |-> st.formData])

\* processBody(buffer, boundary, callback): every invocation of callback
processBody(buffer, boundary) ==
    FinalCall(ForEachContent(splitContentParts(buffer, boundary),
                             [formData |-> EmptyObject, calls |-> <<>>]))

(***************************************************************************)
(* The client: the forms it submits and how it writes them on the wire     *)
(* (delimiter line, CRLF, headers, CRLF CRLF, body, CRLF, next delimiter). *)
(***************************************************************************)
Boundary == <<"X","Y","Z">>          \* the token the Content-Type header names
ForeignBoundary == <<"Q","R","S">>   \* a token the header does not name

NameA == <<"a">>
NameB == <<"b">>
JpgName == <<"a",".","j","p","g">>
ImageJpeg == <<"i","m","a","g","e","/","j","p","e","g">>
Junk == <<"X","-","J","u","n","k">>

Part(kind, name, filename, ctype, body) ==
    [kind |-> kind, name |-> name, filename |-> filename, ctype |-> ctype,
     body |-> body]

PartSpecs ==
    { Part("field", NameA, <<>>, Undefined, <<"H","i">>),
      Part("field", NameB, <<>>, Undefined, <<>>),
      Part("field", NameB, <<>>, Undefined, <<"x","\r","\n">>),
      Part("field", NameA, <<>>, Undefined, <<"1","\r","\n","\r","\n","2">>),
      Part("field", NameB, <<>>, Undefined, <<"p","X","Y","Z","q">>),
      Part("file", NameA, JpgName, Str(ImageJpeg), <<"xFF","J">>),
      Part("file", NameB, JpgName, Undefined, <<"H","i">>),
      Part("file", NameB, <<>>, Str(ImageJpeg), <<"H","i">>),
      Part("file", NameA, JpgName, Str(<<"a",":"," ","b">>), <<"H","i">>),
      Part("filenameFirst", NameB, JpgName, Undefined, <<"H","i">>),
      Part("onlyFilename", <<>>, JpgName, Undefined, <<"H","i">>),
      Part("noDisposition", <<>>, <<>>, Str(ImageJpeg), <<"H","i">>),
      Part("noSeparator", NameA, <<>>, Undefined, <<>>),
      Part("noColon", NameA, <<>>, Undefined, <<"H","i">>) }

Attr(attr, value) == attr \o <<"=", DQUOTE>> \o value \o <<DQUOTE>>
Disposition(attrs) ==
    ContentDispositionName \o COLON_SPACE \o FormData \o attrs
TypeLine(p) ==
    IF p.ctype.def THEN CRLF \o ContentTypeName \o COLON_SPACE \o p.ctype.s
    ELSE <<>>

\* the header block of a part
EncodeHeaders(p) ==
    CASE p.kind = "field" -> Disposition(<<";"," ">> \o Attr(NAME, p.name))
      [] p.kind = "noSeparator" -> Disposition(<<";"," ">> \o Attr(NAME, p.name))
      [] p.kind = "file" ->
            Disposition(<<";"," ">> \o Attr(NAME, p.name) \o <<";"," ">>
                        \o Attr(FILENAME, p.filename)) \o TypeLine(p)
      [] p.kind = "filenameFirst" ->
            Disposition(<<";"," ">> \o Attr(FILENAME, p.filename) \o <<";"," ">>
                        \o Attr(NAME, p.name)) \o TypeLine(p)
      [] p.kind = "onlyFilename" ->
            Disposition(<<";"," ">> \o Attr(FILENAME, p.filename)) \o TypeLine(p)
      [] p.kind = "noDisposition" -> ContentTypeName \o COLON_SPACE \o p.ctype.s
      [] p.kind = "noColon" ->
            Junk \o CRLF \o Disposition(<<";"," ">> \o Attr(NAME, p.name))

\* what follows the delimiter line of a part, up to the next delimiter
EncodePart(p) ==
    IF p.kind = "noSeparator" THEN EncodeHeaders(p) \o CRLF
    ELSE EncodeHeaders(p) \o DOUBLE_CRLF \o p.body \o CRLF

RECURSIVE EncodeParts(_, _)
EncodeParts(parts, token) ==
    IF parts = <<>> THEN <<>>
    ELSE DASHES \o token \o CRLF \o EncodePart(Head(parts))
         \o EncodeParts(Tail(parts), token)

\* "closed": every part is followed by a delimiter, the last by the terminal
\* one; "truncated": the body stops before the terminal delimiter;
\* "foreign": closed, but written with a token the header does not name
Framings == {"closed", "truncated", "foreign"}
Encode(parts, how) ==
    CASE how = "closed" ->
            EncodeParts(parts, Boundary) \o DASHES \o Boundary \o DASHES \o CRLF
      [] how = "truncated" -> EncodeParts(parts, Boundary)
      [] how = "foreign" ->
            EncodeParts(parts, ForeignBoundary) \o DASHES \o ForeignBoundary
            \o DASHES \o CRLF

RECURSIVE FormsOfLen(_)
FormsOfLen(n) ==
    IF n = 0 THEN {<<>>}
    ELSE {Append(f, p) : f \in FormsOfLen(n - 1), p \in PartSpecs}
Forms == UNION {FormsOfLen(n) : n \in 0..MaxParts}

WithBoundary ==
    Str(MultipartFormData \o <<";"," ">> \o BOUNDARY_EQ \o Boundary)
RequestHeaders == {WithBoundary, Str(MultipartFormData), Undefined}

(***************************************************************************)
(* The middleware: multipart(req, res, next).                              *)
(***************************************************************************)
NoBody == [def |-> FALSE, v |-> EmptyObject]
BodyValue(contents) == [def |-> TRUE, v |-> contents]

\* the requests that may be in flight together
Requests == {1, 2}

\* no second request is in flight
OneAtATime ==
    /\ rqSent = <<>>
    /\ rqHeaders = <<>>
    /\ rqWire = <<>>
    /\ rqChunks = <<>>
    /\ rqPc = <<>>
    /\ rqStatus = <<>>
    /\ rqState = <<>>
    /\ rqOutcomes = <<>>
    /\ rqOrder = <<>>

\* no request for the index page is in flight
NoIndexRequest ==
    /\ listing = [err |-> FALSE, files |-> <<>>]
    /\ filePc = "failed"
    /\ reads = {}
    /\ objectsToParse = 0
    /\ objects = <<>>
    /\ parseCalls = <<>>
    /\ indexRes = [statusCode |-> 200, statusMessage |-> "", ends |-> 0,
                   body |-> <<>>]

Init ==
    /\ sent \in Forms
    /\ \/ framing \in Framings /\ headers = WithBoundary
       \/ framing = "closed" /\ headers \in RequestHeaders \ {WithBoundary}
    /\ wire = Encode(sent, framing)
    /\ chunks = <<>>
    /\ pc = "receiving"
    /\ res = [statusCode |-> 200, statusMessage |-> "", ends |-> 0]
    /\ reqStatus = [statusCode |-> 0, statusMessage |-> ""]
    /\ bodySets = <<>>
    /\ nextLog = <<>>
    /\ decodes = 0
    /\ outcomes = <<>>
    /\ parsed = <<>>
    /\ OneAtATime
    /\ NoIndexRequest

ServerError(r, message) ==
    [statusCode |-> 500, statusMessage |-> message, ends |-> r.ends + 1]

\* the sizes the next chunk may have: all that is left or, while another data
\* event may follow, half of it
ChunkSizesOf(w, cs) ==
    {Len(w)} \cup
    (IF Len(cs) + 1 < MaxChunks THEN {Len(w) \div 2} \ {0} ELSE {})
ChunkSizes == ChunkSizesOf(wire, chunks)

\* req.on('data')
OnData ==
    /\ pc = "receiving"
    /\ wire # <<>>
    /\ Len(chunks) < MaxChunks
    /\ \E n \in ChunkSizes :
          /\ chunks' = Append(chunks, SubSeq(wire, 1, n))
          /\ wire' = SubSeq(wire, n + 1, Len(wire))
    /\ UNCHANGED <<sent, framing, headers, pc, res, reqStatus, bodySets,
                   nextLog, decodes, outcomes, parsed>>
    /\ UNCHANGED <<rqVars, fileVars>>

\* req.on('error')
OnError ==
    /\ pc = "receiving"
    /\ res' = ServerError(res, "Server error")
    /\ pc' = "errored"
    /\ UNCHANGED <<wire, sent, framing, headers, chunks, reqStatus, bodySets,
                   nextLog, decodes, outcomes, parsed>>
    /\ UNCHANGED <<rqVars, fileVars>>

\* the callback the end handler hands to processBody, applied to one outcome:
\* an error ends the response with 500; then, error or not, req.body is set
\* and next is invoked
Callback(st, o) ==
    LET contents == IF o.isErr THEN NoBody ELSE BodyValue(o.contents)
    IN  [res |-> IF o.isErr THEN ServerError(st.res, "Server error") ELSE st.res,
         bodySets |-> Append(st.bodySets, contents),
         nextLog |-> Append(st.nextLog, contents)]

RECURSIVE Callbacks(_, _)
Callbacks(st, calls) ==
    IF calls = <<>> THEN st
    ELSE Callbacks(Callback(st, Head(calls)), Tail(calls))

\* the end handler once the boundary is known: processBody and its callbacks
Decoded(calls, parts) ==
    /\ decodes' = decodes + 1
    /\ outcomes' = outcomes \o calls
    /\ parsed' = parsed \o parts
    /\ UNCHANGED reqStatus

Delivered(st) ==
    /\ res' = st.res
    /\ bodySets' = st.bodySets
    /\ nextLog' = st.nextLog

Deliver(calls) ==
    Delivered(Callbacks([res |-> res, bodySets |-> bodySets,
                         nextLog |-> nextLog], calls))

Decode(calls, parts) == Decoded(calls, parts) /\ Deliver(calls)

WithBody(body, match) ==
    IF match.matched /\ match.group # <<>>
    THEN Decode(processBody(body, match.group),
                splitContentParts(body, match.group))
    ELSE /\ reqStatus' = [statusCode |-> 400,
                          statusMessage |-> "Malformed multipart request"]
         /\ res' = [res EXCEPT !.ends = @ + 1]
         /\ UNCHANGED <<bodySets, nextLog, decodes, outcomes, parsed>>

\* req.on('end')
OnEnd ==
    /\ pc = "receiving"
    /\ wire = <<>>
    /\ pc' = "ended"
    /\ WithBody(BufConcat(chunks), BoundaryExec(headers))
    /\ UNCHANGED <<wire, sent, framing, headers, chunks>>
    /\ UNCHANGED <<rqVars, fileVars>>

Next == OnData \/ OnError \/ OnEnd

Spec == Init /\ [][Next]_vars

(***************************************************************************)
(* Two requests handled by one server process.  Node runs one handler at   *)
(* a time, so the handlers of the two calls of multipart interleave as     *)
(* whole steps.  Each call has its own req, res and chunks array;          *)
(* processBody runs to completion inside the end handler and keeps         *)
(* formData in a local.                                                    *)
(***************************************************************************)
\* the bodies the two clients send
ConcForms ==
    { <<Part("field", NameA, <<>>, Undefined, <<"H","i">>)>>,
      <<Part("file", NameA, JpgName, Str(ImageJpeg), <<"xFF","J">>)>>,
      <<Part("field", NameB, <<>>, Undefined, <<"x","\r","\n">>),
        Part("file", NameB, JpgName, Undefined, <<"H","i">>)>>,
      <<Part("onlyFilename", <<>>, JpgName, Undefined, <<"H","i">>),
        Part("field", NameA, <<>>, Undefined, <<"H","i">>)>> }
ConcHeaders == {WithBoundary, Str(MultipartFormData)}

FreshResponse == [statusCode |-> 200, statusMessage |-> "", ends |-> 0]
FreshState == [res |-> FreshResponse, bodySets |-> <<>>, nextLog |-> <<>>]

\* no single request is in flight
NoSingleRequest ==
    /\ sent = <<>>
    /\ framing = "closed"
    /\ headers = Undefined
    /\ wire = <<>>
    /\ chunks = <<>>
    /\ pc = "ended"
    /\ res = FreshResponse
    /\ reqStatus = [statusCode |-> 0, statusMessage |-> ""]
    /\ bodySets = <<>>
    /\ nextLog = <<>>
    /\ decodes = 0
    /\ outcomes = <<>>
    /\ parsed = <<>>

ConcInit ==
    /\ rqSent \in [Requests -> ConcForms]
    /\ rqHeaders \in [Requests -> ConcHeaders]
    /\ rqWire = [r \in Requests |-> Encode(rqSent[r], "closed")]
    /\ rqChunks = [r \in Requests |-> <<>>]
    /\ rqPc = [r \in Requests |-> "receiving"]
    /\ rqStatus = [r \in Requests |-> [statusCode |-> 0, statusMessage |-> ""]]
    /\ rqState = [r \in Requests |-> FreshState]
    /\ rqOutcomes = [r \in Requests |-> <<>>]
    /\ rqOrder = <<>>
    /\ NoSingleRequest
    /\ NoIndexRequest

\* what the data handler would do were chunks one array of the module
PushChunkShared(cs, r, chunk) == [q \in DOMAIN cs |-> Append(cs[q], chunk)]

\* chunks.push(chunk) in the data handler of request r: chunks is the array
\* of that call of multipart
PushChunk(cs, r, chunk) == [cs EXCEPT ![r] = Append(@, chunk)]

\* req.on('data') of request r
RqData(r) ==
    /\ rqPc[r] = "receiving"
    /\ rqWire[r] # <<>>
    /\ Len(rqChunks[r]) < MaxChunks
    /\ \E n \in ChunkSizesOf(rqWire[r], rqChunks[r]) :
          /\ rqChunks' = PushChunk(rqChunks, r, SubSeq(rqWire[r], 1, n))
          /\ rqWire' = [rqWire EXCEPT ![r] = SubSeq(@, n + 1, Len(@))]
    /\ rqOrder' = Append(rqOrder, r)
    /\ UNCHANGED <<rqSent, rqHeaders, rqPc, rqStatus, rqState, rqOutcomes>>
    /\ UNCHANGED <<reqVars, fileVars>>

\* req.on('error') of request r
RqError(r) ==
    /\ rqPc[r] = "receiving"
    /\ rqPc' = [rqPc EXCEPT ![r] = "errored"]
    /\ rqState' = [rqState EXCEPT
                      ![r].res = ServerError(@, "Server error")]
    /\ UNCHANGED <<rqSent, rqHeaders, rqWire, rqChunks, rqStatus, rqOutcomes,
                   rqOrder>>
    /\ UNCHANGED <<reqVars, fileVars>>

\* the end handler of request r once the boundary is known
RqDecode(r, calls) ==
    /\ rqOutcomes' = [rqOutcomes EXCEPT ![r] = @ \o calls]
    /\ rqState' = [rqState EXCEPT ![r] = Callbacks(@, calls)]
    /\ UNCHANGED rqStatus

RqWithBody(r, body, match) ==
    IF match.matched /\ match.group # <<>>
    THEN RqDecode(r, processBody(body, match.group))
    ELSE /\ rqStatus' = [rqStatus EXCEPT
                            ![r] = [statusCode |-> 400,
                                    statusMessage |->
                                        "Malformed multipart request"]]
         /\ rqState' = [rqState EXCEPT ![r].res.ends = @ + 1]
         /\ UNCHANGED rqOutcomes

\* req.on('end') of request r
RqEnd(r) ==
    /\ rqPc[r] = "receiving"
    /\ rqWire[r] = <<>>
    /\ rqPc' = [rqPc EXCEPT ![r] = "ended"]
    /\ RqWithBody(r, BufConcat(rqChunks[r]), BoundaryExec(rqHeaders[r]))
    /\ UNCHANGED <<rqSent, rqHeaders, rqWire, rqChunks, rqOrder>>
    /\ UNCHANGED <<reqVars, fileVars>>

ConcNext ==
    \/ \E r \in Requests : RqData(r)
    \/ \E r \in Requests : RqError(r)
    \/ \E r \in Requests : RqEnd(r)

ConcSpec == ConcInit /\ [][ConcNext]_vars

(***************************************************************************)
(* src/static.js: serveIndex -> getPioneerTags -> getPioneerFilenames and  *)
(* parseFiles.  fs.readdir and each fs.readFile call back later, the reads *)
(* in any order.  What a file holds is the input: "json" (JSON.parse       *)
(* gives its object), "unreadable" (readFile reports an error) or          *)
(* "garbage" (JSON.parse throws inside the readFile callback; nothing      *)
(* catches it, so the process stops).                                      *)
(***************************************************************************)
FileKinds == {"json", "unreadable", "garbage"}

RECURSIVE ListingsOfLen(_)
ListingsOfLen(n) ==
    IF n = 0 THEN {<<>>}
    ELSE {Append(l, k) : l \in ListingsOfLen(n - 1), k \in FileKinds}
Listings == UNION {ListingsOfLen(n) : n \in 0..MaxFiles}

\* JSON.parse(data) for the i-th file, and template.render of its tag
Pioneer(i) == [pioneer |-> i]
RenderTag(o) == [tag |-> o.pioneer]
PioneerTags(pioneers) == [k \in 1..Len(pioneers) |-> RenderTag(pioneers[k])]

\* serveIndex has been called: fs.readdir is outstanding
FilesInit ==
    /\ listing \in [err : {TRUE}, files : {<<>>}]
                    \cup [err : {FALSE}, files : Listings]
    /\ filePc = "listing"
    /\ reads = {}
    /\ objectsToParse = 0
    /\ objects = <<>>
    /\ parseCalls = <<>>
    /\ indexRes = [statusCode |-> 200, statusMessage |-> "", ends |-> 0,
                   body |-> <<>>]
    /\ OneAtATime
    /\ NoSingleRequest

\* fs.readdir fails: the error goes up to serveIndex, which answers 500
ReaddirError ==
    /\ filePc = "listing"
    /\ listing.err
    /\ filePc' = "failed"
    /\ indexRes' = [indexRes EXCEPT !.statusCode = 500,
                                    !.statusMessage = "Server error",
                                    !.ends = @ + 1]
    /\ UNCHANGED <<listing, reads, objectsToParse, objects, parseCalls>>
    /\ UNCHANGED <<reqVars, rqVars>>

\* fs.readdir succeeds: parseFiles(filenames, callback) starts one readFile
\* per filename
ParseFiles ==
    /\ filePc = "listing"
    /\ ~listing.err
    /\ filePc' = "reading"
    /\ objectsToParse' = Len(listing.files)
    /\ objects' = <<>>
    /\ reads' = 1..Len(listing.files)
    /\ UNCHANGED <<listing, parseCalls, indexRes>>
    /\ UNCHANGED <<reqVars, rqVars>>

\* callback(false, objects): getPioneerTags renders the tags and serveIndex
\* ends the response with the page
Finish(objs, outstanding) ==
    /\ parseCalls' = Append(parseCalls,
                            [objects |-> objs, outstanding |-> outstanding])
    /\ indexRes' = [indexRes EXCEPT !.ends = @ + 1,
                                    !.body = PioneerTags(objs)]

\* the rest of the readFile callback once objects is up to date
Counted(objs, left, outstanding) ==
    /\ objects' = objs
    /\ objectsToParse' = left
    /\ IF left = 0 THEN Finish(objs, outstanding)
       ELSE UNCHANGED <<parseCalls, indexRes>>

\* the callback of fs.readFile for the i-th file
OnReadFile(i) ==
    /\ filePc = "reading"
    /\ i \in reads
    /\ reads' = reads \ {i}
    /\ IF listing.files[i] = "garbage"
       THEN /\ filePc' = "crashed"
            /\ UNCHANGED <<objectsToParse, objects, parseCalls, indexRes>>
       ELSE /\ filePc' = filePc
            /\ Counted(IF listing.files[i] = "json"
                           THEN Append(objects, Pioneer(i)) ELSE objects,
                       objectsToParse - 1, reads \ {i})
    /\ UNCHANGED listing
    /\ UNCHANGED <<reqVars, rqVars>>

FilesNext ==
    \/ ReaddirError
    \/ ParseFiles
    \/ \E i \in 1..MaxFiles : OnReadFile(i)

FilesSpec == FilesInit /\ [][FilesNext]_vars

(***************************************************************************)
(* What the claims speak of.                                               *)
(***************************************************************************)
\* the end handler has run and has called processBody
Decoded1 == pc = "ended" /\ decodes = 1

\* the body the end handler assembled
ReceivedBody == BufConcat(chunks)

ErrorCalls == {k \in 1..Len(outcomes) : outcomes[k].isErr}
SuccessCalls == {k \in 1..Len(outcomes) : ~outcomes[k].isErr}

\* the parts of the received body parseContent reports an error for
FailingParts == {i \in 1..Len(parsed) : parseContent(parsed[i]).isErr}

\* the offsets at which the delimiter ('--' and the token) occurs in the body
DelimiterAt ==
    {i \in 0..Len(ReceivedBody) : OccursAt(ReceivedBody, DASHES \o Boundary, i)}

\* what the client wrote: whether a part's Content-Disposition carries a name
\* attribute, a filename attribute
HasName(p) == p.kind \in {"field", "file", "filenameFirst", "noSeparator", "noColon"}
HasFilename(p) == p.kind \in {"file", "filenameFirst", "onlyFilename"}
DeclaredNames(form) == {form[i].name : i \in {j \in 1..Len(form) : HasName(form[j])}}
DistinctNames(form) ==
    \A i, j \in 1..Len(form) : form[i].name = form[j].name => i = j

\* a well-formed part: name and optional filename attribute on
\* Content-Disposition, every header line with one ': ', a blank line, a body
SingleSeparator(p) == ~p.ctype.def \/ IndexOf(p.ctype.s, COLON_SPACE, 0) = -1
WellFormedPart(p) ==
    p.kind \in {"field", "file", "filenameFirst"} /\ SingleSeparator(p)
WellFormed(form) ==
    /\ form # <<>>
    /\ \A i \in 1..Len(form) : WellFormedPart(form[i])
    /\ DistinctNames(form)

\* a plain part: well-formed, the name attribute first, a non-empty filename on
\* a file, and a body that does not contain the boundary token
PlainPart(p) ==
    /\ WellFormedPart(p)
    /\ p.kind \in {"field", "file"}
    /\ p.kind = "file" => p.filename # <<>>
    /\ IndexOf(p.body, Boundary, 0) = -1

\* the form value a part stands for
ValueOf(p) ==
    IF HasFilename(p)
    THEN File(p.filename, IF p.ctype.def THEN p.ctype.s ELSE OctetStream, p.body)
    ELSE Field(p.body)
MappingOf(form) ==
    [n \in DeclaredNames(form) |->
        ValueOf(form[CHOOSE i \in 1..Len(form) : form[i].name = n])]

\* the client's parts reach parseContent as it wrote them: the body is
\* properly framed and no part body contains the boundary token
Aligned ==
    /\ framing = "closed"
    /\ \A i \in 1..Len(sent) : IndexOf(sent[i].body, Boundary, 0) = -1

\* the lines of the header block of a content buffer that has a CRLF CRLF,
\* and those among them that are not of the shape 'name: value' with exactly
\* one ': '
HeaderBlock(buffer) ==
    BufToString(SubSeq(buffer, 1, IndexOf(buffer, DOUBLE_CRLF, 0)))
LinesOf(buffer) == StrSplit(HeaderBlock(buffer), CRLF)
OneSeparator(line) == Len(StrSplit(line, COLON_SPACE)) = 2
BadLine(line) == line # <<>> /\ ~OneSeparator(line)
KeyOf(line) == ToLowerCase(SubSeq(line, 1, IndexOf(line, COLON_SPACE, 0)))
TextAfter(line) == SubSeq(line, IndexOf(line, COLON_SPACE, 0) + 3, Len(line))
\* the value stored for every line with one ': ' that no later line of the
\* same name overwrites is all the text after the ': '
StoredWhole(lines, hdrs) ==
    \A l \in 1..Len(lines) :
        (/\ OneSeparator(lines[l])
         /\ \A m \in (l + 1)..Len(lines) : StrSplit(lines[m], COLON_SPACE)[1] # StrSplit(lines[l], COLON_SPACE)[1])
        => ObjGet(hdrs, KeyOf(lines[l])) = Str(TextAfter(lines[l]))

(***************************************************************************)
(* The claims.                                                             *)
(***************************************************************************)
\* C1: a processBody call delivers exactly one outcome to its callback: when
\* a part fails to parse, the error of the first such part, no later part
\* being parsed and no mapping being delivered; otherwise the complete mapping.
C1_SingleOutcome ==
    (Decoded1 /\ Aligned) =>
        /\ Len(outcomes) = 1
        /\ IF FailingParts = {}
           THEN ~outcomes[1].isErr
           ELSE /\ outcomes[1].isErr
                /\ outcomes[1].err = parseContent(parsed[Min(FailingParts)]).err
                /\ Len(parsed) = Min(FailingParts)

\* C2: next is invoked if and only if decoding succeeded, and then exactly
\* once with req.body set to the result; when decoding reports an error the
\* response is ended with 500, req.body is not set and next is never invoked.
C2_NextIffSuccess ==
    (Decoded1 /\ Aligned) =>
        IF ErrorCalls = {}
        THEN /\ Len(nextLog) = 1
             /\ nextLog[1] = BodyValue(outcomes[Len(outcomes)].contents)
        ELSE /\ res.statusCode = 500 /\ res.ends >= 1
             /\ bodySets = <<>>
             /\ nextLog = <<>>

\* C3: when a part of a properly framed body has no name attribute on its
\* Content-Disposition (no such header, or only other attributes), the decode
\* reports the missing-name error and no result holds an entry under a key
\* that is not the name attribute of some part.
C3_MissingName ==
    (Decoded1 /\ framing = "closed"
       /\ \E i \in 1..Len(sent) : ~HasName(sent[i])) =>
        /\ \E k \in ErrorCalls : outcomes[k].err = NoNameError
        /\ \A k \in SuccessCalls : DOMAIN outcomes[k].contents \subseteq DeclaredNames(sent)

\* C4: when the delimiter occurs nowhere in the buffer, decoding fails: no
\* success is reported (in particular no empty mapping) and no part is
\* extracted.
C4_BoundaryNotFound ==
    (Decoded1 /\ DelimiterAt = {}) =>
        /\ outcomes # <<>>
        /\ SuccessCalls = {}
        /\ parsed = <<>>

\* C5: when the delimiter occurs but no range is closed by a following
\* delimiter occurrence, decoding fails; a successful decode has at least
\* one part.
C5_NoParts ==
    (Decoded1 /\ Cardinality(DelimiterAt) = 1) =>
        /\ outcomes # <<>>
        /\ SuccessCalls = {}

\* C6: a raw part without CRLF CRLF fails to parse: parseContent reports an
\* error for it and derives no Field or File from it, even when its bytes
\* hold a Content-Disposition line with a name attribute.
C6_MalformedPart ==
    (Decoded1 /\ Aligned) =>
        \A i \in 1..Len(parsed) :
            IndexOf(parsed[i], DOUBLE_CRLF, 0) = -1 => i \in FailingParts

\* C7: a header block with a non-empty line that has no ': ' or more than one
\* fails the parse, and the value stored for a line with exactly one ': ' is
\* all the text after it.
C7_MalformedHeader ==
    (Decoded1 /\ Aligned) =>
        \A i \in 1..Len(parsed) :
            IndexOf(parsed[i], DOUBLE_CRLF, 0) # -1 =>
                /\ (\E l \in 1..Len(LinesOf(parsed[i])) : BadLine(LinesOf(parsed[i])[l]))
                      => i \in FailingParts
                /\ StoredWhole(LinesOf(parsed[i]), parseHeaders(parsed[i]))

\* C8: in a properly framed body of well-formed parts with the name attribute
\* first and no boundary token in a body, a part is decoded to a File exactly
\* when its Content-Disposition carries a filename attribute, an empty
\* filename="" included, and to a text Field otherwise.
C8_FilenamePresence ==
    (Decoded1 /\ framing = "closed" /\ WellFormed(sent)
       /\ \A i \in 1..Len(sent) :
             /\ sent[i].kind \in {"field", "file"}
             /\ IndexOf(sent[i].body, Boundary, 0) = -1) =>
        \A i \in 1..Len(sent) :
            /\ sent[i].name \in DOMAIN outcomes[Len(outcomes)].contents
            /\ outcomes[Len(outcomes)].contents[sent[i].name].kind
                  = (IF HasFilename(sent[i]) THEN "File" ELSE "Field")

\* C9: a properly framed body of N well-formed parts with pairwise distinct
\* names decodes to a mapping with exactly N entries keyed by those names,
\* also when a body contains the bare boundary token and when filename
\* precedes name.
C9_EntriesPerName ==
    (Decoded1 /\ framing = "closed" /\ WellFormed(sent)) =>
        /\ ErrorCalls = {}
        /\ DOMAIN outcomes[Len(outcomes)].contents = DeclaredNames(sent)
        /\ Cardinality(DOMAIN outcomes[Len(outcomes)].contents) = Len(sent)

\* C10: round trip: a mapping of Fields and Files written by the encoder
\* (name first) decodes to the same mapping, each body byte for byte.
C10_RoundTrip ==
    (Decoded1 /\ framing = "closed" /\ WellFormed(sent)
       /\ \A i \in 1..Len(sent) : sent[i].kind \in {"field", "file"}) =>
        /\ ErrorCalls = {}
        /\ outcomes[Len(outcomes)].contents = MappingOf(sent)

\* C11: when the Content-Type header has no boundary parameter the end
\* handler never calls processBody and never invokes next, and the response
\* it ends carries a client-error (4xx) status.
C11_ClientError ==
    (pc = "ended" /\ ~BoundaryExec(headers).matched) =>
        /\ decodes = 0
        /\ nextLog = <<>>
        /\ res.ends = 1
        /\ res.statusCode \in 400..499

\* the body request r's client wrote, and what decoding it alone gives
OwnBody(r) == Encode(rqSent[r], "closed")
Isolated(r) == processBody(OwnBody(r), Boundary)
Decodes(r) == rqPc[r] = "ended" /\ rqHeaders[r] = WithBoundary
ResultIs(r, calls) ==
    /\ rqOutcomes[r] = calls
    /\ rqState[r] = Callbacks(FreshState, calls)

\* C12: decode calls are independent.  However the data and end handlers of
\* two concurrent requests interleave, the chunks a request holds are its own
\* bytes in arrival order, its decoded result (every callback invocation,
\* req.body, what next saw, the response) is the result of decoding its own
\* body alone, and two requests with the same body get equal results.
C12_Independent ==
    /\ \A r \in Requests :
          BufConcat(rqChunks[r]) \o rqWire[r] = OwnBody(r)
    /\ \A r \in Requests :
          Decodes(r) => ResultIs(r, Isolated(r))
    /\ \A r, q \in Requests :
          (Decodes(r) /\ Decodes(q) /\ r # q /\ OwnBody(r) = OwnBody(q)) =>
              /\ rqOutcomes[r] = rqOutcomes[q]
              /\ rqState[r] = rqState[q]

\* both requests were decoded, their bodies differ, and their data events
\* alternated
C12_Interleaved ==
    /\ Decodes(1) /\ Decodes(2)
    /\ rqSent[1] # rqSent[2]
    /\ Len(rqChunks[1]) = 2 /\ Len(rqChunks[2]) = 2
    /\ rqOrder = <<1, 2, 1, 2>>
    /\ rqOutcomes[1] # rqOutcomes[2]
    /\ rqState[1].nextLog # rqState[2].nextLog

\* the files fs.readFile read and JSON.parse parsed
ReadOk == {i \in 1..Len(listing.files) : listing.files[i] = "json"}
ObjectsOf(call) == {call.objects[k].pioneer : k \in 1..Len(call.objects)}
ParseFilesCalled == filePc \in {"reading", "crashed"}

\* C13: whatever the list of filenames (the empty one and ones with failing
\* reads included) and whatever order the reads complete in, once no read is
\* outstanding parseFiles has invoked its callback exactly once, no read was
\* outstanding when it did, the callback got the objects of all the files
\* read successfully, and serveIndex has ended the response.
C13_CallbackOnce ==
    (ParseFilesCalled /\ reads = {}) =>
        /\ Len(parseCalls) = 1
        /\ parseCalls[1].outstanding = {}
        /\ ObjectsOf(parseCalls[1]) = ReadOk
        /\ indexRes.ends = 1

\* What does hold of the code (not a claim): a properly framed body of plain
\* parts decodes to one outcome, the mapping the client encoded.
PlainRoundTrip ==
    (Decoded1 /\ framing = "closed" /\ WellFormed(sent)
       /\ \A i \in 1..Len(sent) : PlainPart(sent[i])) =>
        outcomes = <<[isErr |-> FALSE, contents |-> MappingOf(sent)]>>

=============================================================================
